---- MODULE Spec2Model ----
(***************************************************************************)
(* Model of src/app.py, the "Advanced EEG Artifact Trainer".               *)
(*                                                                         *)
(* Times (seconds in the program, floats) are exact rationals here: a time *)
(* is a whole number of ticks, TicksPerSec ticks to the second.  A sample  *)
(* index s of a recording with sample rate sfreq is the time s / sfreq;    *)
(* comparisons between a sample's time and a time in ticks are made by     *)
(* cross-multiplication, so no precision is lost for any sfreq.            *)
(*                                                                         *)
(* Two specifications share the variables:                                 *)
(*   Spec        the quiz session: submit / next segment, each followed by *)
(*               the re-run of the script that recomputes the window slice *)
(*   SpecLookup  check_artifacts and the window slicing applied to         *)
(*               arbitrary bounded inputs (sample rate, events, start)     *)
(***************************************************************************)
EXTENDS Integers, FiniteSets

\* ---------------------------------------------------------------- bounds
\* resolution of the time axis: ticks per second
TicksPerSec == 2
\* cap on the attempts counter (the program's counter is unbounded)
MaxAttempts == 2
\* total number of detected events (blink + horizontal) in a session
MaxSessionEvents == 1
\* total number of events in the inputs of SpecLookup
MaxEvents == 2
\* sample rates 1..MaxSFreq (Hz) in the inputs of SpecLookup
MaxSFreq == 2
\* last sample index of the recordings of SpecLookup
MaxSample == 5

\* ------------------------------------------------------ program constants
\* duration = 3.0
WindowSeconds == 3
\* st.session_state.current_start_time = 10.0
InitialStartSeconds == 10
\* max_time = raw.times[-1] - 5.0
EndMarginSeconds == 5
\* new_time = (random_event_sample / sfreq) - 1.0
SnapLeadSeconds == 1

\* ------------------------------------------------- the session's recording
\* raw.info['sfreq'] of the session's recording (Hz)
SessionSFreq == 1
\* index of the last sample of the session's recording: raw.times[-1] is
\* LastSample / SessionSFreq seconds
LastSample == 13

Sec(n) == n * TicksPerSec

duration == Sec(WindowSeconds)

Clean == "Clean / No Artifact"
Blink == "Blink"
Horizontal == "Horizontal Move"
options == {Clean, Blink, Horizontal}
\* value of `truth` after a run that computed no label
NoLabel == ""

VARIABLES
    sfreq,              \* raw.info['sfreq']
    last_sample,        \* len(raw.times) - 1
    blink_events,       \* st.session_state.blink_events[:, 0], sample indices
    horiz_events,       \* st.session_state.horiz_events[:, 0], sample indices
    current_start_time, \* st.session_state.current_start_time, in ticks
    score,              \* st.session_state.score
    attempts,           \* st.session_state.attempts
    show_answer,        \* st.session_state.show_answer
    user_choice,        \* value of the radio widget
    has_blink,          \* local of check_artifacts, as left by the last run
    has_horiz,          \* local of check_artifacts, as left by the last run
    truth,              \* label the last run computed, NoLabel if it computed none
    branch,             \* branch of next_segment taken by the last run
    random_event_sample,\* local of next_segment; -1 if the last run drew none
    error,              \* the last run of the script ended in an exception
    t_idx_start,        \* window slice, first index; -1 while not computed
    t_idx_stop          \* window slice, index after the last

vars == <<sfreq, last_sample, blink_events, horiz_events, current_start_time,
          score, attempts, show_answer, user_choice, has_blink, has_horiz,
          truth, branch, random_event_sample, error, t_idx_start, t_idx_stop>>

recording == <<sfreq, last_sample, blink_events, horiz_events>>

\* ------------------------------------------------------------- arithmetic
Min(a, b) == IF a <= b THEN a ELSE b
Max(a, b) == IF a >= b THEN a ELSE b

\* round(num / den), den > 0, halves to the even neighbour
RoundHalfEven(num, den) ==
    LET q == num \div den
        r == num % den
    IN  IF 2 * r < den THEN q
        ELSE IF 2 * r > den THEN q + 1
        ELSE IF q % 2 = 0 THEN q ELSE q + 1

\* variant of int_trunc that rounds
IntAsRound(num, den) == RoundHalfEven(num, den)

\* int(num / den), den > 0: truncation toward zero
int_trunc(num, den) ==
    IF num >= 0 THEN num \div den ELSE -((-num) \div den)

\* variant of Clip that leaves x as it is
NoClip(x, lo, hi) == x

\* np.clip(x, lo, hi) = minimum(maximum(x, lo), hi)
Clip(x, lo, hi) == Min(Max(x, lo), hi)

\* -------------------------------------------------------- check_artifacts
\* ev_time = e / sfreq lies in [start_time, start_time + d], both ends included
InClosedWindow(e, start_time, d) ==
    /\ e * TicksPerSec >= start_time * sfreq
    /\ e * TicksPerSec <= (start_time + d) * sfreq

has_event(events, start_time, d) ==
    IF Cardinality(events) = 0 THEN FALSE
    ELSE \E e \in events : InClosedWindow(e, start_time, d)

\* variant of Label with the horizontal flag tested first
LabelHorizontalFirst(hb, hh) ==
    IF hh THEN Horizontal ELSE IF hb THEN Blink ELSE Clean

\* the label chosen from the two flags
Label(hb, hh) ==
    IF hb THEN Blink ELSE IF hh THEN Horizontal ELSE Clean

check_artifacts(start_time, d) ==
    Label(has_event(blink_events, start_time, d),
          has_event(horiz_events, start_time, d))

\* ------------------------------------------------------------ the window
SliceStart(start) == int_trunc(start * sfreq, TicksPerSec)
SliceStop(start)  == int_trunc((start + duration) * sfreq, TicksPerSec)

\* the re-run of the script recomputes the slice from the start time
Render ==
    /\ t_idx_start' = SliceStart(current_start_time')
    /\ t_idx_stop' = SliceStop(current_start_time')

\* raw.times[-1], in ticks
LastTime == (last_sample * TicksPerSec) \div sfreq

max_time == LastTime - Sec(EndMarginSeconds)

\* ------------------------------------------------------------------ Init
RECURSIVE SetsUpTo(_, _)
\* the subsets of S of at most k elements
SetsUpTo(S, k) ==
    IF k = 0 THEN {{}}
    ELSE LET smaller == SetsUpTo(S, k - 1)
         IN  smaller \cup {s \cup {x} : s \in smaller, x \in S}

\* the pairs <<blink samples, horizontal samples>> of at most `total` events
EventSets(last, total) ==
    {bh \in SetsUpTo(0..last, total) \X SetsUpTo(0..last, total) :
        Cardinality(bh[1]) + Cardinality(bh[2]) <= total}

SessionDefaults ==
    /\ score = 0
    /\ attempts = 0
    /\ show_answer = FALSE
    /\ user_choice = Clean
    /\ has_blink = FALSE
    /\ has_horiz = FALSE
    /\ truth = NoLabel
    /\ branch = "none"
    /\ random_event_sample = -1
    /\ error = FALSE

Init ==
    /\ sfreq = SessionSFreq
    /\ last_sample = LastSample
    /\ \E bh \in EventSets(LastSample, MaxSessionEvents) :
          /\ blink_events = bh[1]
          /\ horiz_events = bh[2]
    /\ current_start_time = Sec(InitialStartSeconds)
    /\ SessionDefaults
    /\ t_idx_start = SliceStart(Sec(InitialStartSeconds))
    /\ t_idx_stop = SliceStop(Sec(InitialStartSeconds))

\* ---------------------------------------------------------------- submit
\* a run of the script that does not call check_artifacts
NoLookup ==
    /\ has_blink' = FALSE
    /\ has_horiz' = FALSE
    /\ truth' = NoLabel

\* variant of Submit that scores whatever show_answer is
SubmitNoGuard ==
    \E choice \in options :
        /\ attempts < MaxAttempts
        /\ user_choice' = choice
        /\ attempts' = attempts + 1
        /\ has_blink' = has_event(blink_events, current_start_time, duration)
        /\ has_horiz' = has_event(horiz_events, current_start_time, duration)
        /\ truth' = check_artifacts(current_start_time, duration)
        /\ score' = IF choice = truth' THEN score + 1 ELSE score
        /\ show_answer' = TRUE
        /\ branch' = "none"
        /\ error' = FALSE
        /\ UNCHANGED <<recording, current_start_time>>
        /\ random_event_sample' = -1
        /\ Render

\* variant of Submit that adds to score whatever the choice
SubmitAlwaysScores ==
    \E choice \in options :
        /\ user_choice' = choice
        /\ branch' = "none"
        /\ error' = FALSE
        /\ UNCHANGED <<recording, current_start_time>>
        /\ random_event_sample' = -1
        /\ Render
        /\ IF ~show_answer
           THEN /\ attempts < MaxAttempts
                /\ attempts' = attempts + 1
                /\ has_blink' = has_event(blink_events, current_start_time, duration)
                /\ has_horiz' = has_event(horiz_events, current_start_time, duration)
                /\ truth' = check_artifacts(current_start_time, duration)
                /\ score' = score + 1
                /\ show_answer' = TRUE
           ELSE /\ UNCHANGED <<attempts, score, show_answer>>
                /\ NoLookup

\* variant of Submit that counts an attempt only for a wrong answer
SubmitScoreBeforeAttempt ==
    \E choice \in options :
        /\ user_choice' = choice
        /\ branch' = "none"
        /\ error' = FALSE
        /\ UNCHANGED <<recording, current_start_time>>
        /\ random_event_sample' = -1
        /\ Render
        /\ IF ~show_answer
           THEN /\ attempts < MaxAttempts
                /\ has_blink' = has_event(blink_events, current_start_time, duration)
                /\ has_horiz' = has_event(horiz_events, current_start_time, duration)
                /\ truth' = check_artifacts(current_start_time, duration)
                /\ score' = IF choice = truth' THEN score + 1 ELSE score
                /\ attempts' = IF choice = truth' THEN attempts ELSE attempts + 1
                /\ show_answer' = TRUE
           ELSE /\ UNCHANGED <<attempts, score, show_answer>>
                /\ NoLookup

\* the form is submitted with the radio on `choice`; the script runs to the
\* end (st.rerun after an accepted submit included)
Submit ==
    \E choice \in options :
        /\ user_choice' = choice
        /\ branch' = "none"
        /\ error' = FALSE
        /\ UNCHANGED <<recording, current_start_time>>
        /\ random_event_sample' = -1
        /\ Render
        /\ IF ~show_answer
           THEN /\ attempts < MaxAttempts
                /\ attempts' = attempts + 1
                /\ has_blink' = has_event(blink_events, current_start_time, duration)
                /\ has_horiz' = has_event(horiz_events, current_start_time, duration)
                /\ truth' = check_artifacts(current_start_time, duration)
                /\ score' = IF choice = truth' THEN score + 1 ELSE score
                /\ show_answer' = TRUE
           ELSE /\ UNCHANGED <<attempts, score, show_answer>>
                /\ NoLookup

\* ---------------------------------------------------------- next_segment
\* np.random.rand() <= 0.5; np.random.uniform(0, max_time) draws from
\* [0, max_time), and rounding can return max_time itself
next_segment_uniform ==
    /\ branch' = "uniform"
    /\ \E t \in 0..max_time : current_start_time' = t
    /\ show_answer' = FALSE
    /\ error' = FALSE
    /\ random_event_sample' = -1

\* variant of next_segment_snap that clears show_answer before drawing the event
next_segment_snap_reset_first ==
    /\ branch' = "snap"
    /\ LET all_events == blink_events \cup horiz_events
       IN  IF Cardinality(all_events) = 0
           THEN /\ error' = TRUE
                /\ show_answer' = FALSE
                /\ random_event_sample' = -1
                /\ UNCHANGED current_start_time
           ELSE \E e \in all_events :
                   /\ random_event_sample' = e
                   /\ current_start_time' =
                        Clip((e * TicksPerSec) \div sfreq - Sec(SnapLeadSeconds),
                             0, max_time)
                   /\ show_answer' = FALSE
                   /\ error' = FALSE

\* np.random.rand() > 0.5; np.random.randint(0) raises on an empty stack
next_segment_snap ==
    /\ branch' = "snap"
    /\ LET all_events == blink_events \cup horiz_events
       IN  IF Cardinality(all_events) = 0
           THEN /\ error' = TRUE
                /\ random_event_sample' = -1
                /\ UNCHANGED <<current_start_time, show_answer>>
           ELSE \E e \in all_events :
                   /\ random_event_sample' = e
                   /\ current_start_time' =
                        Clip((e * TicksPerSec) \div sfreq - Sec(SnapLeadSeconds),
                             0, max_time)
                   /\ show_answer' = FALSE
                   /\ error' = FALSE

next_segment ==
    \/ next_segment_snap
    \/ next_segment_uniform

\* variant of NextSegment with the button drawn in every state
NextSegmentAnyState ==
    /\ next_segment
    /\ UNCHANGED <<recording, score, attempts, user_choice>>
    /\ NoLookup
    /\ Render

\* the "Next Segment" button, drawn only while the answer is shown
NextSegment ==
    /\ show_answer
    /\ next_segment
    /\ UNCHANGED <<recording, score, attempts, user_choice>>
    /\ NoLookup
    /\ Render

Next ==
    \/ Submit
    \/ NextSegment

Spec == Init /\ [][Next]_vars

\* ------------------------------------------------------------ SpecLookup
InitLookup ==
    /\ sfreq \in 1..MaxSFreq
    /\ last_sample = MaxSample
    /\ \E bh \in EventSets(MaxSample, MaxEvents) :
          /\ blink_events = bh[1]
          /\ horiz_events = bh[2]
    /\ current_start_time \in 0..(MaxSample * TicksPerSec)
    /\ SessionDefaults
    /\ t_idx_start = -1
    /\ t_idx_stop = -1

\* truth = check_artifacts(start, duration)
CheckArtifacts ==
    /\ truth = NoLabel
    /\ has_blink' = has_event(blink_events, current_start_time, duration)
    /\ has_horiz' = has_event(horiz_events, current_start_time, duration)
    /\ truth' = check_artifacts(current_start_time, duration)
    /\ UNCHANGED <<recording, current_start_time, score, attempts, show_answer,
                   user_choice, branch, random_event_sample, error,
                   t_idx_start, t_idx_stop>>

\* t_idx_start, t_idx_stop = int(start * sfreq), int((start + duration) * sfreq)
SliceWindow ==
    /\ t_idx_start = -1
    /\ UNCHANGED <<recording, current_start_time, score, attempts, show_answer,
                   user_choice, has_blink, has_horiz, truth, branch,
                   random_event_sample, error>>
    /\ Render

NextLookup ==
    \/ CheckArtifacts
    \/ SliceWindow

SpecLookup == InitLookup /\ [][NextLookup]_vars

\* ================================================================ claims
\* ev_time = e / sfreq lies in [start_time, start_time + d)
InHalfOpenWindow(e, start_time, d) ==
    /\ e * TicksPerSec >= start_time * sfreq
    /\ e * TicksPerSec < (start_time + d) * sfreq

NoEvents == blink_events = {} /\ horiz_events = {}

Advanced == branch \in {"snap", "uniform"} /\ ~error

\* C1: every step taken in awaiting_answer (only a submit can be) adds exactly 1
\* to attempts, adds 1 to score if and only if the submitted choice is the label
\* check_artifacts computes for the current window start (score unchanged
\* otherwise), and leaves the reveal flag true.
C1_SubmitScoring ==
    [][~show_answer =>
          /\ attempts' = attempts + 1
          /\ score' = score + (IF user_choice' = check_artifacts(current_start_time, duration)
                               THEN 1 ELSE 0)
          /\ show_answer']_vars

\* two windows scored, one answer right and the last one wrong
C1_Witness ==
    /\ show_answer
    /\ attempts = 2
    /\ score = 1
    /\ truth # NoLabel
    /\ user_choice # truth

\* C2: a submit in answer_revealed changes none of attempts, score, the reveal
\* flag and the start time; attempts changes only on a step from awaiting_answer
\* to answer_revealed, and the only way back to awaiting_answer is next_segment.
C2_ScoredOnce ==
    [][/\ (show_answer /\ branch' = "none") =>
             /\ attempts' = attempts
             /\ score' = score
             /\ show_answer'
             /\ current_start_time' = current_start_time
       /\ (attempts' # attempts) => (~show_answer /\ show_answer')
       /\ (show_answer /\ ~show_answer') => branch' \in {"snap", "uniform"}]_vars

\* the user answered wrong, then submitted the right label on the same window:
\* the second submit was not scored
C2_Witness ==
    /\ show_answer
    /\ attempts = 1
    /\ score = 0
    /\ truth = NoLabel
    /\ user_choice = check_artifacts(current_start_time, duration)

\* C3: after every successful next_segment, on either branch, the start time is
\* in [0, raw.times[-1] - 3.0].
C3_AdvanceInRange ==
    Advanced =>
        /\ 0 <= current_start_time
        /\ current_start_time <= LastTime - duration

\* the snap branch drew the event on the last sample and was clipped to max_time
C3_Witness ==
    /\ branch = "snap"
    /\ ~error
    /\ random_event_sample = last_sample
    /\ current_start_time = max_time

\* C4: has_event reports a match if and only if some event's time e satisfies
\* t <= e < t + d (half-open interval).
C4_HalfOpenLookup ==
    truth # NoLabel =>
        /\ has_blink <=> \E e \in blink_events :
                            InHalfOpenWindow(e, current_start_time, duration)
        /\ has_horiz <=> \E e \in horiz_events :
                            InHalfOpenWindow(e, current_start_time, duration)

\* C5: check_artifacts returns "Blink" exactly when a blink event is in the
\* window the lookup tests (whether or not a horizontal event is), "Horizontal
\* Move" exactly when no blink event but a horizontal event is, and "Clean / No
\* Artifact" exactly when neither set has an event in it.
C5_Priority ==
    truth # NoLabel =>
        LET b == \E e \in blink_events : InClosedWindow(e, current_start_time, duration)
            h == \E e \in horiz_events : InClosedWindow(e, current_start_time, duration)
        IN  /\ truth = Blink <=> b
            /\ truth = Horizontal <=> (~b /\ h)
            /\ truth = Clean <=> (~b /\ ~h)

\* a blink and a horizontal event in the same window: the label is "Blink"
C5_Witness ==
    /\ truth = Blink
    /\ \E e \in blink_events : InClosedWindow(e, current_start_time, duration)
    /\ \E e \in horiz_events : InClosedWindow(e, current_start_time, duration)

\* C6 as stated: the slice is [round(start * sfreq), round((start + duration) * sfreq)).
C6_RoundedRange ==
    t_idx_start # -1 =>
        /\ t_idx_start = RoundHalfEven(current_start_time * sfreq, TicksPerSec)
        /\ t_idx_stop = RoundHalfEven((current_start_time + duration) * sfreq, TicksPerSec)

\* C6 amended: the slice is [floor(start * sfreq), floor((start + duration) * sfreq)),
\* for every start time >= 0 and every sample rate.
C6_TruncatedRange ==
    t_idx_start # -1 =>
        /\ t_idx_start * TicksPerSec <= current_start_time * sfreq
        /\ current_start_time * sfreq < (t_idx_start + 1) * TicksPerSec
        /\ t_idx_stop * TicksPerSec <= (current_start_time + duration) * sfreq
        /\ (current_start_time + duration) * sfreq < (t_idx_stop + 1) * TicksPerSec

\* a slice computed for a start time that falls between two samples
C6_Witness ==
    /\ t_idx_start # -1
    /\ (current_start_time * sfreq) % TicksPerSec # 0

\* C7: next_segment runs only in answer_revealed; a successful one leaves the
\* session in awaiting_answer with score and attempts unchanged; in
\* awaiting_answer no step changes the start time.
C7_AdvanceFrame ==
    [][/\ (branch' \in {"snap", "uniform"}) => show_answer
       /\ (branch' \in {"snap", "uniform"} /\ ~error') =>
             /\ ~show_answer'
             /\ score' = score
             /\ attempts' = attempts
       /\ ~show_answer => current_start_time' = current_start_time]_vars

\* a scored window followed by an advance to another start time
C7_Witness ==
    /\ branch = "uniform"
    /\ ~show_answer
    /\ attempts = 1
    /\ score = 1
    /\ current_start_time # Sec(InitialStartSeconds)

\* C8: with both event sets empty, a next_segment on the snap branch ends in an
\* error and changes none of start time, reveal flag, score and attempts (the
\* session stays in answer_revealed); a submit over empty event sets ends
\* without error and computes the clean label.
C8_EmptySnapAborts ==
    [][NoEvents =>
          /\ (branch' = "snap") =>
                /\ error'
                /\ show_answer /\ show_answer'
                /\ current_start_time' = current_start_time
                /\ score' = score
                /\ attempts' = attempts
          /\ (~show_answer) =>
                /\ ~error'
                /\ truth' = Clean]_vars

\* the snap branch was taken with no events at all, after a scored window
C8_Witness ==
    /\ NoEvents
    /\ branch = "snap"
    /\ error
    /\ show_answer
    /\ attempts = 1
    /\ current_start_time = Sec(InitialStartSeconds)

\* C9: 0 <= score <= attempts in every state; neither counter ever decreases,
\* score grows by at most 1 a step, and attempts grows by 1 exactly on the
\* steps from awaiting_answer to answer_revealed (the accepted submits).
C9_Counters ==
    /\ [](0 <= score /\ score <= attempts)
    /\ [][/\ score' \in {score, score + 1}
          /\ attempts' = attempts + (IF ~show_answer /\ show_answer' THEN 1 ELSE 0)]_vars

\* every window so far answered right, up to the cap
C9_Witness ==
    /\ attempts = MaxAttempts
    /\ score = MaxAttempts

\* C10: after a next_segment on the snap branch the chosen event lies in the
\* new window, so the label of the new window is not the clean one.
C10_SnapShowsEvent ==
    (branch = "snap" /\ ~error) =>
        /\ InClosedWindow(random_event_sample, current_start_time, duration)
        /\ check_artifacts(current_start_time, duration) # Clean

====
